---- MODULE Spec2Model ----
(***************************************************************************)
(* Model of the EmotionSense backend's history store                       *)
(* (app/services/storage.py), its HTTP routes (app/routes/history.py), the *)
(* second in-memory store of app/routes/health.py and the prediction       *)
(* pipeline of app/services/inference.py.                                  *)
(*                                                                         *)
(* Time is counted in whole hours: datetime.utcnow() is the variable now,  *)
(* timedelta(hours=h) is the integer h.  A Python dict key that is absent  *)
(* is the value NoKey.  Confidences are counted in ten-thousandths.        *)
(***************************************************************************)
EXTENDS Integers, Sequences, FiniteSets, TLC

\* ------------------------------------------------------------------ bounds
\* mutations (append, import, clear) one behaviour performs
MaxOps == 2
\* hours the clock advances
MaxNow == 1
\* threads that call store_prediction at the same time
NThreads == 2
\* prediction requests in flight at the same time
NRequests == 2
\* the longest list of frames handed to batch_predict
MaxBatch == 2
\* the largest score of a logits vector, and the negative of the smallest
MaxScore == 1

\* --------------------------------------------------------- program constants
\* storage.py:30-31: predictions kept per user by store_prediction
MaxPredictions == 1000
\* storage.py:89 and :207: the limit get_emotion_stats and export_user_data pass
StatsLimit == 10000
\* storage.py:207-208: the export window, one year of hours
ExportHours == 8760

\* config.py:33: MAX_FRAME_SIZE = 512 * 512 pixels
MAX_FRAME_SIZE == 262144
\* config.py:32  CONFIDENCE_THRESHOLD = 0.3, in ten-thousandths
CONFIDENCE_THRESHOLD == 3000

\* preprocessing.py:13
EMOTIONS == <<"Angry", "Disgust", "Fear", "Happy", "Neutral", "Sad", "Surprise">>

Users == {"user_42", "user_7"}
\* the user whose reads and writes the full specification follows
Clients == {"user_42"}

\* ------------------------------------------------------------------ values
NoKey == "<absent>"
None == "None"

\* A timestamp value as get_predictions sees it (storage.py:65-66):
\*   naive     ISO string without offset: parses to a naive datetime
\*   aware     ISO string ending in Z or an offset: parses to an aware datetime
\*   invalid   a string fromisoformat rejects (ValueError)
\*   nonstring a value without .replace (AttributeError)
\*   NoKey     the key is absent (KeyError)
Ts(kind, t) == [kind |-> kind, t |-> t]
NoTs == Ts(NoKey, 0)

\* A prediction dict as the callers build it (inference.py:48-57).
Pred(emotion, confidence, timestamp) ==
    [shape |-> "dict", emotion |-> emotion, confidence |-> confidence,
     timestamp |-> timestamp, stored_at |-> NoTs]

\* A JSON value that is no object (a string, a number): what import can append.
\* A "confidence" that is no number, such as the JSON string "0.9"; the numbers
\* are ten-thousandths and never negative.
NonNumeric == 0 - 1

NotADict == [shape |-> "nondict", emotion |-> NoKey, confidence |-> 0,
             timestamp |-> NoTs, stored_at |-> NoTs]

\* datetime.utcnow().isoformat() + "Z" (storage.py:26, inference.py:51)
UtcNowZ(t) == Ts("aware", t)

\* Python's seq[start:] for any integer start
PySliceFrom(seq, start) ==
    LET n == Len(seq)
        from == IF start < 0 THEN (IF n + start < 0 THEN 0 ELSE n + start)
                ELSE (IF start > n THEN n ELSE start)
    IN SubSeq(seq, from + 1, n)

\* ------------------------------------------------------------------ state
VARIABLES
    predictions_store,   \* storage.py:9   user -> list of entries (a dict)
    stats_cache,         \* storage.py:10  user -> last computed stats
    now,                 \* datetime.utcnow(), in hours
    ret,                 \* what the last call returned to its caller
    nops,                \* mutations performed so far
    appended,            \* history: per user whose list holds nothing but what
                         \* store_prediction appended, all entries appended
    threads,             \* concurrent calls of store_prediction: where each is
    requests,            \* prediction requests in flight: where each is
    health_prediction_store, \* routes/health.py:10  user -> list of predictions
    batch                \* the call of batch_predict: its list, index and results

vars == <<predictions_store, stats_cache, now, ret, nops, appended, threads,
          requests, health_prediction_store, batch>>

\* what the calls of the storage functions one at a time leave alone
inflight == <<threads, requests, health_prediction_store, batch>>

EmptyDict == [u \in {} |-> <<>>]

\* dict[key] = value
DictSet(d, k, v) == [x \in (DOMAIN d) \cup {k} |-> IF x = k THEN v ELSE d[x]]
\* del dict[key]
DictDel(d, k) == [x \in (DOMAIN d) \ {k} |-> d[x]]

\* ------------------------------------------------------------ return values
NoStats == [keys |-> {}, total |-> 0, emotion_counts |-> <<>>,
            dominant_emotion |-> None, average_confidence |-> 0,
            by_emotion |-> <<>>]

\* What a call hands back: raised is TRUE when an exception reaches the caller.
\* A JSON text: whether json.loads accepts it, the type of the value it holds and,
\* for an object, its "predictions", "total_predictions" and "statistics" members.
JsonText(parses, type, predictions_kind, predictions, statistics) ==
    [parses |-> parses, type |-> type, predictions_kind |-> predictions_kind,
     predictions |-> predictions, total_predictions |-> Len(predictions),
     statistics |-> statistics]

NoText == JsonText(FALSE, None, NoKey, <<>>, NoStats)

\* What a call hands back: raised is TRUE when an exception reaches the caller.
Ret(op, user) ==
    [op |-> op, user |-> user, raised |-> FALSE, ok |-> TRUE, status |-> 0,
     list |-> <<>>, stats |-> NoStats, arg |-> <<>>, limit |-> 0, hours |-> 0,
     text |-> NoText, total |-> 0]

\* ------------------------------------------------- storage.py: store_prediction
\* storage.py:30-31, the trimmed list
TrimKeepFirst(lst) ==
    IF Len(lst) > MaxPredictions THEN SubSeq(lst, 1, MaxPredictions) ELSE lst

Trim(lst) ==
    IF Len(lst) > MaxPredictions THEN PySliceFrom(lst, 0 - MaxPredictions) ELSE lst

\* storage.py:20-37.  The result is the store afterwards and whether the
\* exception of line 24 ({**prediction} of a value that is no mapping) was
\* re-raised by line 37; lines 21-22 have run by then.
StorePredictionEffect(store, user_id, prediction, t) ==
    LET s1 == IF user_id \notin DOMAIN store
              THEN DictSet(store, user_id, <<>>) ELSE store
    IN IF prediction.shape # "dict"
       THEN [store |-> s1, raised |-> TRUE]
       ELSE LET entry == [prediction EXCEPT !.stored_at = UtcNowZ(t)]
                s2 == DictSet(s1, user_id, Append(s1[user_id], entry))
            IN [store |-> DictSet(s2, user_id, Trim(s2[user_id])),
                raised |-> FALSE]

\* -------------------------------------------------- storage.py: get_predictions
\* storage.py:62-69, the loop over the stored list.  KeyError and ValueError
\* skip the entry; any other exception leaves the loop.
\* the loop as if it kept every entry whose timestamp parses, whatever its age
RECURSIVE FilterLoopNoCutoff(_, _, _, _)
FilterLoopNoCutoff(predictions, i, cutoff_time, filtered) ==
    IF i > Len(predictions)
    THEN [raised |-> FALSE, filtered |-> filtered]
    ELSE LET p == predictions[i]
         IN IF p.shape # "dict" \/ p.timestamp.kind \in {"nonstring", "aware"}
            THEN [raised |-> TRUE, filtered |-> filtered]
            ELSE FilterLoopNoCutoff(predictions, i + 1, cutoff_time,
                                    IF p.timestamp.kind = "naive"
                                    THEN Append(filtered, p) ELSE filtered)

RECURSIVE FilterLoop(_, _, _, _)
FilterLoop(predictions, i, cutoff_time, filtered) ==
    IF i > Len(predictions)
    THEN [raised |-> FALSE, filtered |-> filtered]
    ELSE LET p == predictions[i]
         IN CASE p.shape # "dict" ->            \* p["timestamp"]: TypeError
                   [raised |-> TRUE, filtered |-> filtered]
              [] p.shape = "dict" /\ p.timestamp.kind = NoKey ->     \* KeyError
                   FilterLoop(predictions, i + 1, cutoff_time, filtered)
              [] p.shape = "dict" /\ p.timestamp.kind = "nonstring" ->
                   [raised |-> TRUE, filtered |-> filtered]    \* AttributeError
              [] p.shape = "dict" /\ p.timestamp.kind = "invalid" -> \* ValueError
                   FilterLoop(predictions, i + 1, cutoff_time, filtered)
              [] p.shape = "dict" /\ p.timestamp.kind = "aware" ->
                   \* aware > naive: TypeError
                   [raised |-> TRUE, filtered |-> filtered]
              [] p.shape = "dict" /\ p.timestamp.kind = "naive" ->
                   FilterLoop(predictions, i + 1, cutoff_time,
                              IF p.timestamp.t > cutoff_time
                              THEN Append(filtered, p) ELSE filtered)

\* storage.py:55-75
get_predictions(store, user_id, limit, hours, t) ==
    IF user_id \notin DOMAIN store
    THEN <<>>
    ELSE LET loop == FilterLoop(store[user_id], 1, t - hours, <<>>)
         IN IF loop.raised
            THEN <<>>                               \* except Exception: return []
            ELSE PySliceFrom(loop.filtered, 0 - limit)

\* ------------------------------------------------ storage.py: get_emotion_stats
\* storage.py:104-105: emotion_counts[emotion] = emotion_counts.get(emotion, 0) + 1
\* on a dict that keeps its keys in insertion order, here a sequence of
\* <<emotion, count>> items.
IncCount(emotion_counts, emotion) ==
    IF \E i \in 1..Len(emotion_counts) : emotion_counts[i][1] = emotion
    THEN [i \in 1..Len(emotion_counts) |->
             IF emotion_counts[i][1] = emotion
             THEN <<emotion, emotion_counts[i][2] + 1>>
             ELSE emotion_counts[i]]
    ELSE Append(emotion_counts, <<emotion, 1>>)

\* storage.py:103-106, the loop: <<emotion_counts, total_confidence, raised>>.
\* Line 106 adds whatever "confidence" holds to a float: a value that is no
\* number raises TypeError, which leaves the loop.
RECURSIVE CountLoop(_, _, _, _)
CountLoop(predictions, i, emotion_counts, total_confidence) ==
    IF i > Len(predictions)
    THEN <<emotion_counts, total_confidence, FALSE>>
    ELSE LET p == predictions[i]
             emotion == IF p.emotion = NoKey THEN "Unknown" ELSE p.emotion
         IN IF p.confidence = NonNumeric
            THEN <<IncCount(emotion_counts, emotion), total_confidence, TRUE>>
            ELSE CountLoop(predictions, i + 1, IncCount(emotion_counts, emotion),
                           total_confidence + p.confidence)

\* max(items, key=count) as if it kept the last of the largest items
RECURSIVE MaxItemLast(_, _, _)
MaxItemLast(items, i, best) ==
    IF i > Len(items) THEN best
    ELSE MaxItemLast(items, i + 1,
                     IF items[i][2] >= best[2] THEN items[i] ELSE best)

\* Python's max(items, key=lambda x: x[1]): the first of the largest items
RECURSIVE MaxItem(_, _, _)
MaxItem(items, i, best) ==
    IF i > Len(items) THEN best
    ELSE MaxItem(items, i + 1,
                 IF items[i][2] > best[2] THEN items[i] ELSE best)

\* the dominant label as if ties went to the label met last
DominantLast(emotion_counts) ==
    IF emotion_counts = <<>> THEN None
    ELSE MaxItemLast(emotion_counts, 2, emotion_counts[1])[1]

\* storage.py:112
Dominant(emotion_counts) ==
    IF emotion_counts = <<>> THEN None
    ELSE MaxItem(emotion_counts, 2, emotion_counts[1])[1]

\* sorted(items, key=count, reverse=True): stable, so equal counts keep their order
RECURSIVE SortedByCountDesc(_)
SortedByCountDesc(items) ==
    IF items = <<>> THEN <<>>
    ELSE LET best == MaxItem(items, 2, items[1])
             k == CHOOSE i \in 1..Len(items) :
                     /\ items[i] = best
                     /\ \A j \in 1..(i - 1) : items[j] # best
         IN <<best>> \o SortedByCountDesc(SubSeq(items, 1, k - 1)
                                          \o SubSeq(items, k + 1, Len(items)))

\* round(x, 4) of the quotient n / d, x counted in ten-thousandths: to the
\* nearest unit, halves to the even one
RoundHalfEven(n, d) ==
    LET q == n \div d
        r == n % d
    IN IF 2 * r < d THEN q
       ELSE IF 2 * r > d THEN q + 1
       ELSE IF q % 2 = 0 THEN q ELSE q + 1

\* storage.py:92-98 and 134-140
ZeroStats ==
    [keys |-> {"user_id", "total", "emotion_counts", "dominant_emotion",
               "average_confidence"},
     total |-> 0, emotion_counts |-> <<>>, dominant_emotion |-> None,
     average_confidence |-> 0, by_emotion |-> <<>>]

\* storage.py:88-140: the stats returned and whether line 127 cached them.
\* An exception of the loop is caught at line 132, which answers as for an
\* empty window.
get_emotion_stats(store, user_id, hours, t) ==
    LET predictions == get_predictions(store, user_id, StatsLimit, hours, t)
    IN IF predictions = <<>>
       THEN [stats |-> ZeroStats, cached |-> FALSE]
       ELSE LET acc == CountLoop(predictions, 1, <<>>, 0)
                emotion_counts == acc[1]
                total == Len(predictions)
            IN IF acc[3] THEN [stats |-> ZeroStats, cached |-> FALSE] ELSE
               [stats |->
                  [keys |-> {"user_id", "total", "emotion_counts",
                             "dominant_emotion", "average_confidence",
                             "by_emotion"},
                   total |-> total,
                   emotion_counts |-> emotion_counts,
                   dominant_emotion |-> Dominant(emotion_counts),
                   average_confidence |-> RoundHalfEven(acc[2], total),
                   by_emotion |-> SortedByCountDesc(emotion_counts)],
                cached |-> TRUE]

\* ------------------------------------------------- storage.py: export, import
\* storage.py:206-222: the JSON text returned and the stats line 208 computes
export_user_data(store, user_id, t) ==
    LET predictions == get_predictions(store, user_id, StatsLimit, ExportHours, t)
        stats == get_emotion_stats(store, user_id, ExportHours, t)
    IN [text |-> JsonText(TRUE, "object", "list", predictions, stats.stats),
        stats |-> stats]

\* storage.py:235-250: the store afterwards and the value returned.
\* json.loads raises on a text that is no JSON; data.get raises on a value
\* that is no object; the for loop raises on a value that cannot be iterated,
\* after lines 239-240 have run.
import_user_data(store, user_id, data_json) ==
    IF ~data_json.parses \/ data_json.type # "object"
    THEN [store |-> store, ok |-> FALSE]
    ELSE LET predictions == IF data_json.predictions_kind = NoKey THEN <<>>
                            ELSE data_json.predictions
             s1 == IF user_id \notin DOMAIN store
                   THEN DictSet(store, user_id, <<>>) ELSE store
         IN IF data_json.predictions_kind \notin {NoKey, "list"}
            THEN [store |-> s1, ok |-> FALSE]
            ELSE [store |-> DictSet(s1, user_id, s1[user_id] \o predictions),
                  ok |-> TRUE]

\* ------------------------------------------- routes/history.py: import_data
\* history.py:119-135.  The HTTPException of line 125 is raised inside the try
\* block and HTTPException is an Exception, so the handler of line 130 catches
\* it and raises the one of line 132.
import_data_status(success) ==
    LET tried == IF success THEN [raised |-> FALSE, status |-> 200]
                 ELSE [raised |-> TRUE, status |-> 400]
    IN IF tried.raised THEN 500 ELSE tried.status

\* ------------------------------------------------------------------ inputs
\* The predictions a caller stores at time t: with a naive timestamp, with the
\* timestamp predict_emotion gives by default (inference.py:51), and a value
\* that is no mapping.
Predictions(t) ==
    { Pred("Happy", 9000, Ts("naive", t)),
      Pred("Sad", 5000, Ts("naive", t)),
      Pred("Happy", 9000, UtcNowZ(t)),
      NotADict }

\* The texts a client posts to /history/import at time t
Entry(emotion, confidence, timestamp, stored_at) ==
    [Pred(emotion, confidence, timestamp) EXCEPT !.stored_at = stored_at]

Snapshots(t) ==
    { JsonText(FALSE, None, NoKey, <<>>, NoStats),            \* no JSON at all
      JsonText(TRUE, "object", "number", <<>>, NoStats),      \* {"predictions": 5}
      JsonText(TRUE, "object", "list",
               << Entry("Sad", 5000, Ts("naive", t), UtcNowZ(t)),
                  Entry("Happy", 9000, Ts("naive", t), UtcNowZ(t)),
                  Entry("Happy", 9000, Ts("naive", t), UtcNowZ(t)) >>, NoStats),
      JsonText(TRUE, "object", "list",
               << Entry("Sad", 5000, UtcNowZ(t), UtcNowZ(t)),
                  Entry("Happy", 9000, UtcNowZ(t), UtcNowZ(t)),
                  Entry("Happy", 9000, UtcNowZ(t), UtcNowZ(t)) >>, NoStats),
      JsonText(TRUE, "object", "list",
               << Entry("Happy", 9000, Ts("invalid", 0), NoTs),
                  Entry("Sad", 5000, NoTs, NoTs),
                  Entry("Sad", 5000, Ts("naive", t), NoTs) >>, NoStats),
      JsonText(TRUE, "object", "list", << NotADict >>, NoStats),
      JsonText(TRUE, "object", "list",                \* "confidence": "0.9"
               << Entry("Happy", NonNumeric, Ts("naive", t), NoTs) >>, NoStats) }

Limits == {0, 1, 10}
Hours == {1, ExportHours}

\* the values the Query declarations of history.py:13-14 and health.py:40-41
\* let through
RouteLimits == {1, 10}
RouteHours == {1, 168}

\* ------------------------------------------------------------------ actions
Threads == 1..NThreads
Requests == 1..NRequests

\* a thread that has not called store_prediction yet
IdleThread == [pc |-> "idle", user_id |-> None, prediction |-> NotADict]

\* An image frame as posted: whether the string is base64, whether the bytes
\* are an image Image.open accepts, and the image's size and mode.
Frame(encoding, image, width, height, mode) ==
    [encoding |-> encoding, image |-> image, width |-> width, height |-> height,
     mode |-> mode]

\* What the opaque model hands back for a tensor: the logits' shape, the index
\* of their largest score and the softmax of that score in ten-thousandths.
Logits(shape_ok, argmax, confidence) ==
    [shape_ok |-> shape_ok, argmax |-> argmax, confidence |-> confidence]

\* batch_predict has not been called
IdleBatch == [pc |-> "idle", frames_list |-> <<>>, i |-> 1, results |-> <<>>]

\* a request that has not arrived yet
IdleRequest ==
    [pc |-> "idle", frame |-> Frame("garbage", "corrupt", 0, 0, "L"),
     model |-> "raises", logits |-> Logits(FALSE, 1, 0), timestamp |-> NoTs,
     user_id |-> None, response |-> NotADict, error |-> None]

Init ==
    /\ predictions_store = EmptyDict
    /\ stats_cache = EmptyDict
    /\ now = 0
    /\ ret = Ret("init", None)
    /\ nops = 0
    /\ appended = EmptyDict
    /\ threads = [t \in Threads |-> IdleThread]
    /\ requests = [r \in Requests |-> IdleRequest]
    /\ health_prediction_store = EmptyDict
    /\ batch = IdleBatch

\* The history variable after store_prediction(u, p) on store: a list created
\* by this call or built by appends alone grows by the entry; a list that
\* import has written to is not followed.
AppendedAfterStore(store, u, p, t) ==
    IF p.shape # "dict" THEN
        (IF u \notin DOMAIN store THEN DictSet(appended, u, <<>>) ELSE appended)
    ELSE LET entry == [p EXCEPT !.stored_at = UtcNowZ(t)]
         IN IF u \notin DOMAIN store THEN DictSet(appended, u, <<entry>>)
            ELSE IF u \in DOMAIN appended
                 THEN DictSet(appended, u, Append(appended[u], entry))
                 ELSE appended

StorePrediction(u, p) ==
    /\ nops < MaxOps
    /\ LET eff == StorePredictionEffect(predictions_store, u, p, now)
       IN /\ predictions_store' = eff.store
          /\ ret' = [Ret("store_prediction", u) EXCEPT
                        !.raised = eff.raised, !.arg = <<p>>]
    /\ appended' = AppendedAfterStore(predictions_store, u, p, now)
    /\ nops' = nops + 1
    /\ UNCHANGED <<stats_cache, now>>
    /\ UNCHANGED inflight

\* get_predictions as if it dropped from the stored list what the window no
\* longer holds
GetPredictionsEvicting(u, limit, hours) ==
    /\ ret' = [Ret("get_predictions", u) EXCEPT
                  !.list = get_predictions(predictions_store, u, limit, hours, now),
                  !.limit = limit, !.hours = hours]
    /\ predictions_store' =
           IF u \in DOMAIN predictions_store
           THEN DictSet(predictions_store, u,
                        FilterLoop(predictions_store[u], 1, now - hours, <<>>).filtered)
           ELSE predictions_store
    /\ UNCHANGED <<stats_cache, now, nops, appended>>
    /\ UNCHANGED inflight

\* storage.py:55-75
GetPredictions(u, limit, hours) ==
    /\ ret' = [Ret("get_predictions", u) EXCEPT
                  !.list = get_predictions(predictions_store, u, limit, hours, now),
                  !.limit = limit, !.hours = hours]
    /\ UNCHANGED <<predictions_store, stats_cache, now, nops, appended>>
    /\ UNCHANGED inflight

\* GET /history as if get_predictions looked the user's list up without asking
\* whether there is one: the KeyError ends in the route's handler
GetEmotionHistoryStrict(u, limit, hours) ==
    /\ LET predictions == get_predictions(predictions_store, u, limit, hours, now)
       IN ret' = [Ret("get_emotion_history", u) EXCEPT
                     !.status = (IF u \in DOMAIN predictions_store THEN 200
                                 ELSE 500),
                     !.list = predictions, !.total = Len(predictions),
                     !.limit = limit, !.hours = hours]
    /\ UNCHANGED <<predictions_store, stats_cache, now, nops, appended>>
    /\ UNCHANGED inflight

\* GET /history of routes/history.py:27-43: get_predictions raises nothing, so
\* the HistoryResponse of lines 30-36 is what the route answers
GetEmotionHistory(u, limit, hours) ==
    /\ LET predictions == get_predictions(predictions_store, u, limit, hours, now)
       IN ret' = [Ret("get_emotion_history", u) EXCEPT
                     !.status = 200,
                     !.list = predictions, !.total = Len(predictions),
                     !.limit = limit, !.hours = hours]
    /\ UNCHANGED <<predictions_store, stats_cache, now, nops, appended>>
    /\ UNCHANGED inflight

\* the clock advances one hour; the last call's result is no longer at hand
Tick ==
    /\ now < MaxNow
    /\ now' = now + 1
    /\ ret' = Ret("tick", None)
    /\ UNCHANGED <<predictions_store, stats_cache, nops, appended>>
    /\ UNCHANGED inflight

GetEmotionStats(u, hours) ==
    /\ LET r == get_emotion_stats(predictions_store, u, hours, now)
       IN /\ ret' = [Ret("get_emotion_stats", u) EXCEPT
                        !.stats = r.stats, !.hours = hours]
          /\ stats_cache' = IF r.cached THEN DictSet(stats_cache, u, r.stats)
                            ELSE stats_cache
    /\ UNCHANGED <<predictions_store, now, nops, appended>>
    /\ UNCHANGED inflight

\* clear_predictions as if it emptied the two dicts instead of deleting the
\* user's keys
ClearPredictionsAll(u) ==
    /\ nops < MaxOps
    /\ predictions_store' = EmptyDict
    /\ stats_cache' = EmptyDict
    /\ ret' = [Ret("clear_predictions", u) EXCEPT
                  !.arg = <<u \in DOMAIN predictions_store,
                            ret.op = "clear_predictions" /\ ret.user = u>>]
    /\ appended' = DictDel(appended, u)
    /\ nops' = nops + 1
    /\ UNCHANGED now
    /\ UNCHANGED inflight

\* clear_predictions as if it deleted the key without looking for it: the
\* KeyError for a user without history is caught and False returned
ClearPredictionsStrict(u) ==
    /\ nops < MaxOps
    /\ predictions_store' = DictDel(predictions_store, u)
    /\ stats_cache' = DictDel(stats_cache, u)
    /\ ret' = [Ret("clear_predictions", u) EXCEPT
                  !.ok = (u \in DOMAIN predictions_store),
                  !.arg = <<u \in DOMAIN predictions_store,
                            ret.op = "clear_predictions" /\ ret.user = u>>]
    /\ appended' = DictDel(appended, u)
    /\ nops' = nops + 1
    /\ UNCHANGED now
    /\ UNCHANGED inflight

\* storage.py:152-163.  The result also records whether the user had a history
\* and whether the call before this one was a clear of the same user.
ClearPredictions(u) ==
    /\ nops < MaxOps
    /\ predictions_store' = DictDel(predictions_store, u)
    /\ stats_cache' = DictDel(stats_cache, u)
    /\ ret' = [Ret("clear_predictions", u) EXCEPT
                  !.arg = <<u \in DOMAIN predictions_store,
                            ret.op = "clear_predictions" /\ ret.user = u>>]
    /\ appended' = DictDel(appended, u)
    /\ nops' = nops + 1
    /\ UNCHANGED now
    /\ UNCHANGED inflight

\* export_user_data as if looking a user up created the user's list
ExportUserDataCreating(u) ==
    /\ LET r == export_user_data(predictions_store, u, now)
       IN /\ ret' = [Ret("export_user_data", u) EXCEPT !.text = r.text]
          /\ stats_cache' = IF r.stats.cached
                            THEN DictSet(stats_cache, u, r.stats.stats)
                            ELSE stats_cache
    /\ predictions_store' = IF u \in DOMAIN predictions_store
                            THEN predictions_store
                            ELSE DictSet(predictions_store, u, <<>>)
    /\ UNCHANGED <<now, nops, appended>>
    /\ UNCHANGED inflight

\* storage.py:206-222
ExportUserData(u) ==
    /\ LET r == export_user_data(predictions_store, u, now)
       IN /\ ret' = [Ret("export_user_data", u) EXCEPT !.text = r.text]
          /\ stats_cache' = IF r.stats.cached
                            THEN DictSet(stats_cache, u, r.stats.stats)
                            ELSE stats_cache
    /\ UNCHANGED <<predictions_store, now, nops, appended>>
    /\ UNCHANGED inflight

\* POST /history/import: history.py:119-135 calling storage.py:235-250
ImportData(u, data_json) ==
    /\ nops < MaxOps
    /\ LET r == import_user_data(predictions_store, u, data_json)
       IN /\ predictions_store' = r.store
          /\ ret' = [Ret("import_user_data", u) EXCEPT
                        !.ok = r.ok, !.status = import_data_status(r.ok),
                        !.text = data_json]
    /\ appended' = IF data_json.parses /\ data_json.type = "object"
                   THEN DictDel(appended, u) ELSE appended
    /\ nops' = nops + 1
    /\ UNCHANGED <<stats_cache, now>>
    /\ UNCHANGED inflight

Next ==
    \/ \E u \in Clients, p \in Predictions(now) : StorePrediction(u, p)
    \/ \E u \in Clients, l \in Limits, h \in Hours : GetPredictions(u, l, h)
    \/ \E u \in Clients, l \in RouteLimits, h \in RouteHours :
           GetEmotionHistory(u, l, h)
    \/ \E u \in Clients, h \in Hours : GetEmotionStats(u, h)
    \/ \E u \in Clients : ExportUserData(u)
    \/ \E u \in Clients, d \in Snapshots(now) : ImportData(u, d)
    \/ \E u \in Clients : ClearPredictions(u)
    \/ Tick

Spec == Init /\ [][Next]_vars

\* ------------------------------------------------ the store close to its cap
\* The list n calls of store_prediction leave, one call an hour, the last one
\* an hour before time 0.
Prefill(n) ==
    [i \in 1..n |->
        Entry(IF i % 2 = 0 THEN "Happy" ELSE "Sad", IF i % 2 = 0 THEN 9000 ELSE 5000,
              Ts("naive", i - n - 1), UtcNowZ(i - n - 1))]

InitMut ==
    /\ \E n \in {0, MaxPredictions - 1, MaxPredictions} :
          /\ predictions_store =
                IF n = 0 THEN EmptyDict ELSE DictSet(EmptyDict, "user_42", Prefill(n))
          /\ appended = predictions_store
    /\ stats_cache = EmptyDict
    /\ now = 0
    /\ ret = Ret("init", None)
    /\ nops = 0
    /\ threads = [t \in Threads |-> IdleThread]
    /\ requests = [r \in Requests |-> IdleRequest]
    /\ health_prediction_store = EmptyDict
    /\ batch = IdleBatch

\* append, import and clear, for every user
NextMut ==
    \/ \E u \in Users, p \in Predictions(now) : StorePrediction(u, p)
    \/ \E u \in Users, d \in Snapshots(now) : ImportData(u, d)
    \/ \E u \in Users : ClearPredictions(u)

SpecMut == InitMut /\ [][NextMut]_vars

\* ---------------------------------------------------- two users on one store
\* append, import, clear and stats, for every user, from an empty store
NextIso ==
    \/ \E u \in Users, p \in Predictions(now) : StorePrediction(u, p)
    \/ \E u \in Users, d \in Snapshots(now) : ImportData(u, d)
    \/ \E u \in Users : ClearPredictions(u)
    \/ \E u \in Users : GetEmotionStats(u, ExportHours)

SpecIso == Init /\ [][NextIso]_vars

\* ------------------------------------- store_prediction, statement by statement
\* Threads run storage.py:21-31 with no lock (storage.py:9-10 is a plain dict):
\* a step is one statement, named by its line.
SetThread(t, pc) == threads' = [threads EXCEPT ![t].pc = pc]

\* the call: thread t enters store_prediction(user_id, prediction)
ThreadCall(t, user_id, prediction) ==
    /\ threads[t].pc = "idle"
    /\ threads' = [threads EXCEPT
                      ![t] = [pc |-> "L21", user_id |-> user_id,
                              prediction |-> prediction]]
    /\ UNCHANGED <<predictions_store, stats_cache, now, ret, nops, appended,
                   requests, health_prediction_store, batch>>

\* storage.py:21  if user_id not in _predictions_store:
ThreadL21(t) ==
    /\ threads[t].pc = "L21"
    /\ SetThread(t, IF threads[t].user_id \notin DOMAIN predictions_store
                    THEN "L22" ELSE "L24")
    /\ UNCHANGED <<predictions_store, stats_cache, now, ret, nops, appended,
                   requests, health_prediction_store, batch>>

\* storage.py:22  _predictions_store[user_id] = []
ThreadL22(t) ==
    /\ threads[t].pc = "L22"
    /\ predictions_store' = DictSet(predictions_store, threads[t].user_id, <<>>)
    /\ SetThread(t, "L24")
    /\ UNCHANGED <<stats_cache, now, ret, nops, appended, requests,
                   health_prediction_store, batch>>

\* storage.py:24-27  _predictions_store[user_id].append({...})
ThreadL24(t) ==
    /\ threads[t].pc = "L24"
    /\ LET u == threads[t].user_id
           entry == [threads[t].prediction EXCEPT !.stored_at = UtcNowZ(now)]
       IN predictions_store' =
              DictSet(predictions_store, u, Append(predictions_store[u], entry))
    /\ SetThread(t, "L30")
    /\ UNCHANGED <<stats_cache, now, ret, nops, appended, requests,
                   health_prediction_store, batch>>

\* storage.py:30  if len(_predictions_store[user_id]) > 1000:
ThreadL30(t) ==
    /\ threads[t].pc = "L30"
    /\ SetThread(t, IF Len(predictions_store[threads[t].user_id]) > MaxPredictions
                    THEN "L31" ELSE "done")
    /\ UNCHANGED <<predictions_store, stats_cache, now, ret, nops, appended,
                   requests, health_prediction_store, batch>>

\* storage.py:31  _predictions_store[user_id] = _predictions_store[user_id][-1000:]
ThreadL31(t) ==
    /\ threads[t].pc = "L31"
    /\ LET u == threads[t].user_id
       IN predictions_store' =
              DictSet(predictions_store, u,
                      PySliceFrom(predictions_store[u], 0 - MaxPredictions))
    /\ SetThread(t, "done")
    /\ UNCHANGED <<stats_cache, now, ret, nops, appended, requests,
                   health_prediction_store, batch>>

\* the predictions the threads store: told apart by label and timestamp
ThreadPredictions ==
    { Pred("Happy", 9000, Ts("naive", 0)),
      Pred("Sad", 5000, Ts("naive", 0)),
      Pred("Happy", 9000, UtcNowZ(0)) }

InitConc ==
    /\ \E n \in {0, MaxPredictions} :
          predictions_store =
              IF n = 0 THEN EmptyDict ELSE DictSet(EmptyDict, "user_42", Prefill(n))
    /\ appended = EmptyDict
    /\ stats_cache = EmptyDict
    /\ now = 0
    /\ ret = Ret("init", None)
    /\ nops = 0
    /\ threads = [t \in Threads |-> IdleThread]
    /\ requests = [r \in Requests |-> IdleRequest]
    /\ health_prediction_store = EmptyDict
    /\ batch = IdleBatch

NextConc ==
    \/ \E t \in Threads, p \in ThreadPredictions : ThreadCall(t, "user_42", p)
    \/ \E t \in Threads : ThreadL21(t)
    \/ \E t \in Threads : ThreadL22(t)
    \/ \E t \in Threads : ThreadL24(t)
    \/ \E t \in Threads : ThreadL30(t)
    \/ \E t \in Threads : ThreadL31(t)

SpecConc == InitConc /\ [][NextConc]_vars


\* ------------------------------------------- preprocessing.py and inference.py
\* preprocessing.py:25-31: either failure is caught and raised again as the
\* same ValueError.
decode_base64_frame(frame) ==
    IF frame.encoding # "base64" \/ frame.image # "raster"
    THEN [raised |-> TRUE, error |-> "Invalid base64 image format"]
    ELSE [raised |-> FALSE, error |-> None]

\* the size guard as if it let every image pass
validate_image_size_never(frame) == [raised |-> FALSE, error |-> None]

\* the size guard as if it turned away an image of exactly the maximum too
validate_image_size_ge(frame) ==
    IF frame.width * frame.height >= MAX_FRAME_SIZE
    THEN [raised |-> TRUE, error |-> "Image too large"]
    ELSE [raised |-> FALSE, error |-> None]

\* preprocessing.py:43-46
validate_image_size(frame) ==
    IF frame.width * frame.height > MAX_FRAME_SIZE
    THEN [raised |-> TRUE, error |-> "Image too large"]
    ELSE [raised |-> FALSE, error |-> None]

\* preprocessing.py:104-127: indexing logits of another shape raises
postprocess_predictions(logits) ==
    IF ~logits.shape_ok
    THEN [raised |-> TRUE, emotion |-> None, confidence |-> 0]
    ELSE [raised |-> FALSE, emotion |-> EMOTIONS[logits.argmax],
          confidence |-> logits.confidence]

\* inference.py:47-57: the response, with the caller's timestamp or the default
Response(prediction, timestamp, t) ==
    Pred(prediction.emotion, prediction.confidence,
         IF timestamp.kind = NoKey THEN UtcNowZ(t) ELSE timestamp)

SetRequest(r, pc) == requests' = [requests EXCEPT ![r].pc = pc]
FailRequest(r, error) ==
    requests' = [requests EXCEPT ![r].pc = "failed", ![r].error = error]

\* POST /predict arrives: predict_emotion(model, frame, user_id, timestamp)
RequestArrive(r, in) ==
    /\ requests[r].pc = "idle"
    /\ requests' = [requests EXCEPT
                       ![r] = [IdleRequest EXCEPT
                                  !.pc = "decode", !.frame = in.frame,
                                  !.model = in.model, !.logits = in.logits,
                                  !.timestamp = in.timestamp,
                                  !.user_id = in.user_id]]
    /\ UNCHANGED <<predictions_store, stats_cache, now, ret, nops, appended,
                   threads, health_prediction_store, batch>>

\* preprocessing.py:69
RequestDecode(r) ==
    /\ requests[r].pc = "decode"
    /\ LET d == decode_base64_frame(requests[r].frame)
       IN IF d.raised THEN FailRequest(r, d.error) ELSE SetRequest(r, "validate")
    /\ UNCHANGED <<predictions_store, stats_cache, now, ret, nops, appended,
                   threads, health_prediction_store, batch>>

\* preprocessing.py:72
RequestValidate(r) ==
    /\ requests[r].pc = "validate"
    /\ LET v == validate_image_size(requests[r].frame)
       IN IF v.raised THEN FailRequest(r, v.error) ELSE SetRequest(r, "normalize")
    /\ UNCHANGED <<predictions_store, stats_cache, now, ret, nops, appended,
                   threads, health_prediction_store, batch>>

\* preprocessing.py:75-88: grayscale, resize, scale, reshape
RequestNormalize(r) ==
    /\ requests[r].pc = "normalize"
    /\ SetRequest(r, "infer")
    /\ UNCHANGED <<predictions_store, stats_cache, now, ret, nops, appended,
                   threads, health_prediction_store, batch>>

\* inference.py:37-38: the model runs, and raises or returns logits
RequestInfer(r) ==
    /\ requests[r].pc = "infer"
    /\ IF requests[r].model = "raises"
       THEN FailRequest(r, "InferenceError") ELSE SetRequest(r, "postprocess")
    /\ UNCHANGED <<predictions_store, stats_cache, now, ret, nops, appended,
                   threads, health_prediction_store, batch>>

\* the request is cancelled while it awaits the inference engine
RequestCancel(r) ==
    /\ requests[r].pc = "infer"
    /\ SetRequest(r, "cancelled")
    /\ UNCHANGED <<predictions_store, stats_cache, now, ret, nops, appended,
                   threads, health_prediction_store, batch>>

\* inference.py:41-60
RequestPostprocess(r) ==
    /\ requests[r].pc = "postprocess"
    /\ LET prediction == postprocess_predictions(requests[r].logits)
       IN IF prediction.raised
          THEN FailRequest(r, "postprocess")
          ELSE requests' =
                 [requests EXCEPT
                     ![r].pc = "succeeded",
                     ![r].response = Response(prediction, requests[r].timestamp, now)]
    /\ UNCHANGED <<predictions_store, stats_cache, now, ret, nops, appended,
                   threads, health_prediction_store, batch>>

\* the /predict route hands the result to the history store
RequestStore(r) ==
    /\ requests[r].pc = "succeeded"
    /\ predictions_store' =
           StorePredictionEffect(predictions_store, requests[r].user_id,
                                 requests[r].response, now).store
    /\ SetRequest(r, "stored")
    /\ UNCHANGED <<stats_cache, now, ret, nops, appended, threads,
                   health_prediction_store, batch>>

\* what the clients post
RequestInput(frame, model, logits, timestamp) ==
    [frame |-> frame, model |-> model, logits |-> logits,
     timestamp |-> timestamp, user_id |-> "user_42"]

RequestInputs ==
    LET good == Frame("base64", "raster", 48, 48, "L")
        happy == Logits(TRUE, 4, 9000)
    IN { RequestInput(good, "returns", happy, NoTs),
         RequestInput(good, "returns", Logits(TRUE, 6, 5000), Ts("naive", 0)),
         RequestInput(Frame("garbage", "corrupt", 0, 0, "L"), "returns", happy, NoTs),
         RequestInput(Frame("base64", "corrupt", 0, 0, "L"), "returns", happy, NoTs),
         RequestInput(Frame("base64", "raster", 545, 481, "RGB"), "returns", happy, NoTs),
         RequestInput(Frame("base64", "raster", 512, 512, "RGB"), "returns", happy, NoTs),
         RequestInput(good, "raises", happy, NoTs),
         RequestInput(good, "returns", Logits(FALSE, 1, 0), NoTs) }

NextReq ==
    \/ \E r \in Requests, in \in RequestInputs : RequestArrive(r, in)
    \/ \E r \in Requests : RequestDecode(r)
    \/ \E r \in Requests : RequestValidate(r)
    \/ \E r \in Requests : RequestNormalize(r)
    \/ \E r \in Requests : RequestInfer(r)
    \/ \E r \in Requests : RequestCancel(r)
    \/ \E r \in Requests : RequestPostprocess(r)
    \/ \E r \in Requests : RequestStore(r)

SpecReq == Init /\ [][NextReq]_vars


\* ------------------------------------------------- inference.py: batch_predict
\* inference.py:31-64: what predict_emotion does with one frame, start to end.
\* Whatever preprocess_frame, the model or postprocess_predictions raises is
\* logged and raised again; error is the text of the exception.
predict_emotion(frame_data, t) ==
    LET d == decode_base64_frame(frame_data.frame)
        v == validate_image_size(frame_data.frame)
        prediction == postprocess_predictions(frame_data.logits)
    IN IF d.raised THEN [raised |-> TRUE, error |-> d.error, response |-> NotADict]
       ELSE IF v.raised
       THEN [raised |-> TRUE, error |-> v.error, response |-> NotADict]
       ELSE IF frame_data.model = "raises"
       THEN [raised |-> TRUE, error |-> "InferenceError", response |-> NotADict]
       ELSE IF prediction.raised
       THEN [raised |-> TRUE, error |-> "postprocess", response |-> NotADict]
       ELSE [raised |-> FALSE, error |-> NoKey,
             response |-> Response(prediction, frame_data.timestamp, t)]

\* one turn of the loop as if a frame that fails were passed over
batch_iteration_dropping(results, frame_data, t) ==
    LET p == predict_emotion(frame_data, t)
    IN IF p.raised THEN results
       ELSE Append(results, [error |-> NoKey, result |-> p.response])

\* inference.py:79-89, one turn of the loop: the results afterwards.  An item
\* is the result of predict_emotion, or {"error": str(e)} with no result.
batch_iteration(results, frame_data, t) ==
    LET p == predict_emotion(frame_data, t)
    IN IF p.raised
       THEN Append(results, [error |-> p.error, result |-> NotADict])
       ELSE Append(results, [error |-> NoKey, result |-> p.response])

\* inference.py:66-77: batch_predict(model, frames_list) is called
BatchCall(frames_list) ==
    /\ batch.pc = "idle"
    /\ batch' = [pc |-> "loop", frames_list |-> frames_list, i |-> 1,
                 results |-> <<>>]
    /\ UNCHANGED <<predictions_store, stats_cache, now, ret, nops, appended,
                   threads, requests, health_prediction_store>>

\* inference.py:78-89: the next frame of the list
BatchIterate ==
    /\ batch.pc = "loop"
    /\ batch.i <= Len(batch.frames_list)
    /\ batch' = [batch EXCEPT
                    !.results = batch_iteration(batch.results,
                                                batch.frames_list[batch.i], now),
                    !.i = batch.i + 1]
    /\ UNCHANGED <<predictions_store, stats_cache, now, ret, nops, appended,
                   threads, requests, health_prediction_store>>

\* inference.py:91
BatchReturn ==
    /\ batch.pc = "loop"
    /\ batch.i > Len(batch.frames_list)
    /\ batch' = [batch EXCEPT !.pc = "returned"]
    /\ UNCHANGED <<predictions_store, stats_cache, now, ret, nops, appended,
                   threads, requests, health_prediction_store>>

\* the lists of frames a client posts: up to MaxBatch frames
RECURSIVE FramesLists(_)
FramesLists(n) ==
    IF n = 0 THEN {<<>>}
    ELSE LET shorter == FramesLists(n - 1)
         IN shorter \cup {Append(l, in) : l \in {x \in shorter : Len(x) = n - 1},
                                          in \in RequestInputs}

NextBatch ==
    \/ \E frames_list \in FramesLists(MaxBatch) : BatchCall(frames_list)
    \/ BatchIterate
    \/ BatchReturn

SpecBatch == Init /\ [][NextBatch]_vars

\* --------------------------------------------- inference.py: validate_confidence
\* the check as if a confidence had to exceed the threshold
validate_confidence_gt(confidence, threshold) == confidence > threshold

\* inference.py:93-95, threshold being settings.CONFIDENCE_THRESHOLD at the time
\* of the call; confidences and thresholds in ten-thousandths
validate_confidence(confidence, threshold) == confidence >= threshold

\* the confidences checked and the thresholds configured
Confidences ==
    {k * 500 : k \in 0..20} \cup {CONFIDENCE_THRESHOLD - 1, CONFIDENCE_THRESHOLD + 1}
Thresholds == {k * 1000 : k \in 0..10}

\* validate_confidence(confidence) is called while the setting is threshold
ValidateConfidence(confidence, threshold) ==
    /\ ret' = [Ret("validate_confidence", None) EXCEPT
                  !.arg = <<confidence, threshold>>,
                  !.ok = validate_confidence(confidence, threshold)]
    /\ UNCHANGED <<predictions_store, stats_cache, now, nops, appended>>
    /\ UNCHANGED inflight

NextConf ==
    \E confidence \in Confidences, threshold \in Thresholds :
        ValidateConfidence(confidence, threshold)

SpecConf == Init /\ [][NextConf]_vars

\* ------------------------------------ preprocessing.py: postprocess_predictions
\* Probabilities are counted in ten-thousandths, as confidences are.
Unit == 10000

\* exp(d) in ten-thousandths for a whole d from -8 to 0, to the nearest one;
\* below that it is counted as nothing
ExpTable == <<10000, 3679, 1353, 498, 183, 67, 25, 9, 3>>
Exp(d) == IF 0 - d < Len(ExpTable) THEN ExpTable[1 - d] ELSE 0

RECURSIVE SumOf(_)
SumOf(seq) == IF seq = <<>> THEN 0 ELSE seq[1] + SumOf(Tail(seq))

MaxOf(seq) == CHOOSE x \in {seq[i] : i \in 1..Len(seq)} :
                  \A i \in 1..Len(seq) : seq[i] <= x

\* exponentials that are never divided by their sum
softmax_unnormalised(scores) ==
    [i \in 1..Len(scores) |-> Exp(scores[i] - MaxOf(scores))]

\* preprocessing.py:106, torch.nn.functional.softmax(logits, dim=1)[0]: the
\* exponentials of the scores less their maximum, each divided by their sum,
\* to the nearest ten-thousandth
softmax(scores) ==
    LET e == [i \in 1..Len(scores) |-> Exp(scores[i] - MaxOf(scores))]
        total == SumOf(e)
    IN [i \in 1..Len(scores) |-> (2 * e[i] * Unit + total) \div (2 * total)]

\* preprocessing.py:106-123: torch.max gives the largest probability and the
\* index of its first occurrence
postprocess_scores(scores) ==
    LET probabilities == softmax(scores)
        confidence == MaxOf(probabilities)
        emotion_idx == CHOOSE i \in 1..Len(probabilities) :
                           /\ probabilities[i] = confidence
                           /\ \A j \in 1..(i - 1) : probabilities[j] # confidence
    IN [emotion |-> EMOTIONS[emotion_idx],
        confidence |-> confidence,
        all_emotions |-> [i \in 1..Len(EMOTIONS) |-> <<EMOTIONS[i], probabilities[i]>>]]

\* the logits a model hands back: one whole score per label
ScoreVectors == [1..Len(EMOTIONS) -> (0 - MaxScore)..MaxScore]

\* a model has handed back logits of shape (1, 7), kept in ret.arg
InitPost ==
    /\ predictions_store = EmptyDict
    /\ stats_cache = EmptyDict
    /\ now = 0
    /\ nops = 0
    /\ appended = EmptyDict
    /\ threads = [t \in Threads |-> IdleThread]
    /\ requests = [r \in Requests |-> IdleRequest]
    /\ health_prediction_store = EmptyDict
    /\ batch = IdleBatch
    /\ \E scores \in ScoreVectors :
           ret = [Ret("logits", None) EXCEPT !.arg = <<scores>>]

\* postprocess_predictions(logits) is called on them
PostprocessPredictions ==
    /\ ret.op = "logits"
    /\ ret' = [Ret("postprocess_predictions", None) EXCEPT
                  !.arg = <<ret.arg[1], postprocess_scores(ret.arg[1])>>]
    /\ UNCHANGED <<predictions_store, stats_cache, now, nops, appended>>
    /\ UNCHANGED inflight

NextPost == PostprocessPredictions

SpecPost == InitPost /\ [][NextPost]_vars

\* ----------------------------------------------- preprocessing.py: the tensor
\* preprocessing.py:12
TARGET_SIZE == <<48, 48>>

\* A decoded image: the frame it came from, and the smallest and the largest
\* sample any of its pixels holds in any band.
Picture(frame, lo, hi) == [frame |-> frame, lo |-> lo, hi |-> hi]

Clip8(v) == IF v < 0 THEN 0 ELSE IF v > 255 THEN 255 ELSE v

\* preprocessing.py:75-76, image.convert('L') unless the mode is 'L' already:
\* the luma of an RGB pixel is a weighted mean of its bands, and the 32-bit
\* samples of mode I are clipped to a byte
convert_L(picture) ==
    IF picture.frame.mode = "L" THEN picture
    ELSE [picture EXCEPT !.frame.mode = "L",
                         !.lo = Clip8(picture.lo), !.hi = Clip8(picture.hi)]

\* a resize that keeps the image's proportions inside the target box, as
\* Image.thumbnail does
resize_thumbnail(picture, size) ==
    LET w == picture.frame.width
        h == picture.frame.height
        tw == IF w >= h THEN size[1] ELSE IF (w * size[2]) \div h = 0 THEN 1
                                          ELSE (w * size[2]) \div h
        th == IF h >= w THEN size[2] ELSE IF (h * size[1]) \div w = 0 THEN 1
                                          ELSE (h * size[1]) \div w
    IN [picture EXCEPT !.frame.width = tw, !.frame.height = th]

\* preprocessing.py:79, image.resize(TARGET_SIZE, LANCZOS): the image gets the
\* target's width and height whatever its own; the Lanczos kernel has negative
\* lobes, so a filtered sample may leave the range of the samples it was
\* computed from by a share of their spread before it is clipped to a byte
resize(picture, size) ==
    LET ringing == (picture.hi - picture.lo) \div 4
    IN [picture EXCEPT !.frame.width = size[1], !.frame.height = size[2],
                       !.lo = Clip8(picture.lo - ringing),
                       !.hi = Clip8(picture.hi + ringing)]

\* preprocessing.py:82-85: the samples divided by 255.0, in ten-thousandths,
\* as an array of height rows and width columns under two more dimensions
to_tensor(picture) ==
    [shape |-> <<1, 1, picture.frame.height, picture.frame.width>>,
     lo |-> (picture.lo * Unit) \div 255,
     hi |-> (picture.hi * Unit) \div 255]

NoTensor == [shape |-> <<>>, lo |-> 0, hi |-> 0]

\* preprocessing.py:67-92
preprocess_frame(picture) ==
    IF decode_base64_frame(picture.frame).raised
    THEN [raised |-> TRUE, tensor |-> NoTensor]
    ELSE IF validate_image_size(picture.frame).raised
    THEN [raised |-> TRUE, tensor |-> NoTensor]
    ELSE [raised |-> FALSE,
          tensor |-> to_tensor(resize(convert_L(picture), TARGET_SIZE))]

\* the images the clients post: sides from one pixel to past the size guard,
\* in grey, colour and 32-bit integer modes
Sides == {1, 2, 48, 100, 512, 545}
Pictures ==
    { Picture(Frame("base64", "raster", w, h, mode), lo, hi) :
        w \in Sides, h \in Sides, mode \in {"L", "RGB"},
        lo \in {0, 100, 255}, hi \in {100, 255} }
    \cup { Picture(Frame("base64", "raster", w, h, "I"), lo, hi) :
             w \in Sides, h \in Sides, lo \in {0 - 70000, 0, 300}, hi \in {300, 70000} }
    \cup { Picture(Frame("base64", "corrupt", 0, 0, "L"), 0, 0) }

\* a frame has been posted, kept in ret.arg
InitPre ==
    /\ predictions_store = EmptyDict
    /\ stats_cache = EmptyDict
    /\ now = 0
    /\ nops = 0
    /\ appended = EmptyDict
    /\ threads = [t \in Threads |-> IdleThread]
    /\ requests = [r \in Requests |-> IdleRequest]
    /\ health_prediction_store = EmptyDict
    /\ batch = IdleBatch
    /\ \E picture \in Pictures :
           /\ picture.lo <= picture.hi
           /\ ret = [Ret("frame", None) EXCEPT !.arg = <<picture>>]

\* preprocess_frame(frame_base64) is called on it
PreprocessFrame ==
    /\ ret.op = "frame"
    /\ LET result == preprocess_frame(ret.arg[1])
       IN ret' = [Ret("preprocess_frame", None) EXCEPT
                     !.arg = <<ret.arg[1], result.tensor>>,
                     !.raised = result.raised]
    /\ UNCHANGED <<predictions_store, stats_cache, now, nops, appended>>
    /\ UNCHANGED inflight

NextPre == PreprocessFrame

SpecPre == InitPre /\ [][NextPre]_vars

\* ------------------------------------------------------------ routes/health.py
\* health.py:30-33, the list comprehension: nothing is caught, so an entry
\* without timestamp (KeyError), with one fromisoformat rejects (ValueError),
\* with one that is no string (AttributeError) or with an offset-aware one
\* (TypeError on the comparison) ends it with an exception.
RECURSIVE HealthFilter(_, _, _, _)
HealthFilter(predictions, i, cutoff_time, filtered) ==
    IF i > Len(predictions)
    THEN [raised |-> FALSE, filtered |-> filtered]
    ELSE LET p == predictions[i]
         IN IF p.shape # "dict" \/ p.timestamp.kind # "naive"
            THEN [raised |-> TRUE, filtered |-> filtered]
            ELSE HealthFilter(predictions, i + 1, cutoff_time,
                              IF p.timestamp.t > cutoff_time
                              THEN Append(filtered, p) ELSE filtered)

\* health.py:24-35
health_get_predictions(store, user_id, limit, hours, t) ==
    IF user_id \notin DOMAIN store
    THEN [raised |-> FALSE, list |-> <<>>]
    ELSE LET loop == HealthFilter(store[user_id], 1, t - hours, <<>>)
         IN IF loop.raised
            THEN [raised |-> TRUE, list |-> <<>>]
            ELSE [raised |-> FALSE, list |-> PySliceFrom(loop.filtered, 0 - limit)]

\* health.py:85-92: the answer for an empty window
HealthZeroStats ==
    [keys |-> {"user_id", "total_predictions", "emotion_counts",
               "dominant_emotion", "average_confidence"},
     total |-> 0, emotion_counts |-> <<>>, dominant_emotion |-> None,
     average_confidence |-> 0, by_emotion |-> <<>>]

\* health.py:82-118: the status answered and the body of a 200
health_get_emotion_stats(store, user_id, hours, t) ==
    LET got == health_get_predictions(store, user_id, StatsLimit, hours, t)
        predictions == got.list
    IN IF got.raised
       THEN [status |-> 500, stats |-> NoStats]
       ELSE IF predictions = <<>>
       THEN [status |-> 200, stats |-> HealthZeroStats]
       ELSE IF \E i \in 1..Len(predictions) :
                   \/ predictions[i].emotion = NoKey       \* p["emotion"]: KeyError
                   \/ predictions[i].confidence = NonNumeric        \* TypeError
       THEN [status |-> 500, stats |-> NoStats]
       ELSE LET acc == CountLoop(predictions, 1, <<>>, 0)
            IN [status |-> 200,
                stats |-> [keys |-> {"user_id", "total_predictions",
                                     "emotion_counts", "dominant_emotion",
                                     "average_confidence"},
                           total |-> Len(predictions),
                           emotion_counts |-> acc[1],
                           dominant_emotion |-> Dominant(acc[1]),
                           average_confidence |->
                               RoundHalfEven(acc[2], Len(predictions)),
                           by_emotion |-> <<>>]]

\* health.py:12-16
HealthStorePrediction(u, p) ==
    /\ nops < MaxOps
    /\ health_prediction_store' =
           DictSet(health_prediction_store, u,
                   (IF u \in DOMAIN health_prediction_store
                    THEN health_prediction_store[u] ELSE <<>>) \o <<p>>)
    /\ ret' = [Ret("health.store_prediction", u) EXCEPT !.arg = <<p>>]
    /\ nops' = nops + 1
    /\ UNCHANGED <<predictions_store, stats_cache, now, appended, threads,
                   requests, batch>>

\* health.py:18-35, called directly
HealthGetPredictions(u, limit, hours) ==
    /\ LET got == health_get_predictions(health_prediction_store, u, limit,
                                         hours, now)
       IN ret' = [Ret("health.get_predictions", u) EXCEPT
                     !.raised = got.raised, !.list = got.list,
                     !.limit = limit, !.hours = hours]
    /\ UNCHANGED <<predictions_store, stats_cache, now, nops, appended, threads,
                   requests, health_prediction_store, batch>>

\* GET /history of health.py:37-70
HealthGetEmotionHistory(u, limit, hours) ==
    /\ LET got == health_get_predictions(health_prediction_store, u, limit,
                                         hours, now)
       IN ret' = [Ret("health.get_emotion_history", u) EXCEPT
                     !.status = (IF got.raised THEN 500 ELSE 200),
                     !.list = got.list, !.total = Len(got.list),
                     !.limit = limit, !.hours = hours]
    /\ UNCHANGED <<predictions_store, stats_cache, now, nops, appended, threads,
                   requests, health_prediction_store, batch>>

\* GET /history/stats of health.py:72-118
HealthGetEmotionStats(u, hours) ==
    /\ LET r == health_get_emotion_stats(health_prediction_store, u, hours, now)
       IN ret' = [Ret("health.get_emotion_stats", u) EXCEPT
                     !.status = r.status, !.stats = r.stats, !.hours = hours]
    /\ UNCHANGED <<predictions_store, stats_cache, now, nops, appended, threads,
                   requests, health_prediction_store, batch>>

\* DELETE /history of health.py:120-134
HealthClearHistory(u) ==
    /\ nops < MaxOps
    /\ health_prediction_store' = DictDel(health_prediction_store, u)
    /\ ret' = [Ret("health.clear_history", u) EXCEPT !.status = 200]
    /\ nops' = nops + 1
    /\ UNCHANGED <<predictions_store, stats_cache, now, appended, threads,
                   requests, batch>>

\* the clock advances while the routes of health.py serve
HealthTick ==
    /\ now < MaxNow
    /\ now' = now + 1
    /\ ret' = Ret("tick", None)
    /\ UNCHANGED <<predictions_store, stats_cache, nops, appended, threads,
                   requests, health_prediction_store, batch>>

\* the predictions stored through health.py: those of Predictions that are
\* mappings, and one without a label and without a timestamp
HealthPredictions(t) ==
    {p \in Predictions(t) : p.shape = "dict"}
        \cup {Pred(NoKey, 5000, NoTs), Pred("Sad", NonNumeric, Ts("naive", t))}

NextHealth ==
    \/ \E u \in Users, p \in HealthPredictions(now) : HealthStorePrediction(u, p)
    \/ \E u \in Users, l \in Limits, h \in Hours : HealthGetPredictions(u, l, h)
    \/ \E u \in Users, l \in RouteLimits, h \in RouteHours :
           HealthGetEmotionHistory(u, l, h)
    \/ \E u \in Users, h \in RouteHours : HealthGetEmotionStats(u, h)
    \/ \E u \in Users : HealthClearHistory(u)
    \/ HealthTick

SpecHealth == Init /\ [][NextHealth]_vars


\* =================================================================== claims
\* the last n elements of s, in order; all of s when it has fewer
LastN(s, n) ==
    IF Len(s) <= n THEN s ELSE [i \in 1..n |-> s[Len(s) - n + i]]

\* the entry store_prediction makes of prediction p at time t
StoredEntry(p, t) == [p EXCEPT !.stored_at = UtcNowZ(t)]

\* an entry the data model calls well formed: a mapping with a label and an
\* ISO-8601 timestamp, with or without the UTC suffix
WellFormed(e) ==
    /\ e.shape = "dict"
    /\ e.emotion # NoKey
    /\ e.timestamp.kind \in {"naive", "aware"}

\* the entry carries a timestamp that is an instant strictly after cutoff
NewerThan(e, cutoff) ==
    /\ e.shape = "dict"
    /\ e.timestamp.kind \in {"naive", "aware"}
    /\ e.timestamp.t > cutoff

\* the entries of s newer than cutoff, in order
RECURSIVE Window(_, _)
Window(s, cutoff) ==
    IF s = <<>> THEN <<>>
    ELSE (IF NewerThan(s[1], cutoff) THEN <<s[1]>> ELSE <<>>)
         \o Window(Tail(s), cutoff)

\* C1: in every state reachable by append, import and clear, every user's
\* stored history holds at most MaxPredictions (1000) entries.
C1_CapOnEveryUser ==
    \A u \in DOMAIN predictions_store :
        Len(predictions_store[u]) <= MaxPredictions

\* C2: a history built by store_prediction alone holds exactly the most recent
\* MaxPredictions (1000) of the entries appended to it, in append order.
C2_RetainsMostRecent ==
    \A u \in DOMAIN appended :
        /\ u \in DOMAIN predictions_store
        /\ predictions_store[u] = LastN(appended[u], MaxPredictions)

\* C2 witness: more than the cap has been appended to one user, the last two
\* calls evicting an entry each.
C2_Witness ==
    \E u \in DOMAIN appended :
        /\ Len(appended[u]) > MaxPredictions + 1
        /\ ret.op = "store_prediction" /\ ret.user = u /\ ~ret.raised

\* C3: right after store_prediction(u, p), get_predictions(u, limit=1, hours=8760)
\* is the one-element list holding the entry just appended.
C3_AppendThenQuery ==
    (ret.op = "store_prediction" /\ ~ret.raised) =>
        get_predictions(predictions_store, ret.user, 1, ExportHours, now)
            = << StoredEntry(ret.arg[1], now) >>

\* C4: for a known user, get_predictions(u, limit, hours) is the last limit
\* entries, in insertion order, of the stored entries whose timestamp is
\* strictly newer than now - hours.
C4_QueryIsWindowTail ==
    (ret.op = "get_predictions" /\ ret.user \in DOMAIN predictions_store) =>
        ret.list = LastN(Window(predictions_store[ret.user], now - ret.hours),
                         ret.limit)

\* how often e occurs in s
Occurrences(s, e) == Cardinality({i \in 1..Len(s) : s[i] = e})

\* C5: once all concurrent calls of store_prediction for a user have returned,
\* every entry they appended is in that user's history (fewer calls than the cap
\* ran, so the cap evicts none of them).
C5_NoLostUpdate ==
    (\A t \in Threads : threads[t].pc = "done") =>
        \A t \in Threads :
            LET u == threads[t].user_id
                e == StoredEntry(threads[t].prediction, now)
            IN /\ u \in DOMAIN predictions_store
               /\ Occurrences(predictions_store[u], e) >=
                      Cardinality({x \in Threads :
                                      /\ threads[x].user_id = u
                                      /\ threads[x].prediction = threads[t].prediction})

\* C6: POST /history/import answers 200 when import_user_data succeeds and 400
\* when it reports failure.
C6_ImportStatus ==
    (ret.op = "import_user_data") =>
        ret.status = (IF ret.ok THEN 200 ELSE 400)

\* C7: after importing a snapshot of 3 well-formed entries for a user without
\* history, get_predictions(u, limit=10, hours=8760) is those 3 entries in
\* snapshot order.
C7_ImportThenQuery ==
    ( /\ ret.op = "import_user_data" /\ ret.ok
      /\ Len(ret.text.predictions) = 3
      /\ \A i \in 1..3 : WellFormed(ret.text.predictions[i])
      /\ predictions_store[ret.user] = ret.text.predictions ) =>
        get_predictions(predictions_store, ret.user, 10, ExportHours, now)
            = ret.text.predictions

\* C8: no store operation lets an exception reach its caller.
C8_NeverRaises == ~ret.raised

\* the request's frame decodes, passes the size guard, and the model and the
\* postprocessing succeed on it
GoodInput(req) ==
    /\ req.frame.encoding = "base64"
    /\ req.frame.image = "raster"
    /\ req.frame.width * req.frame.height <= MAX_FRAME_SIZE
    /\ req.model = "returns"
    /\ req.logits.shape_ok

\* C9: the history store holds what the requests with a successful prediction
\* wrote and nothing else: a request that fails in decode, size validation,
\* inference or postprocessing, or is cancelled while awaiting inference, has
\* written nothing.
C9_WrittenOnlyAfterSuccess ==
    LET stored == {r \in Requests : requests[r].pc = "stored"}
    IN /\ \A r \in stored : GoodInput(requests[r])
       /\ \A u \in DOMAIN predictions_store :
              /\ Len(predictions_store[u]) =
                     Cardinality({r \in stored : requests[r].user_id = u})
              /\ \A i \in 1..Len(predictions_store[u]) :
                     \E r \in stored :
                         predictions_store[u][i] = StoredEntry(requests[r].response, now)
       /\ (stored = {}) => predictions_store = EmptyDict

\* C9 witness: one request failed, another one wrote its result.
C9_Witness ==
    \E r1, r2 \in Requests :
        /\ requests[r1].pc = "stored"
        /\ requests[r2].pc = "failed"
        /\ "user_42" \in DOMAIN predictions_store
        /\ Len(predictions_store["user_42"]) = 1

RECURSIVE SumCounts(_)
SumCounts(items) ==
    IF items = <<>> THEN 0 ELSE items[1][2] + SumCounts(Tail(items))

\* C11: in every stats result, asked for directly or computed for an export,
\* the counts of the labels add up to the total reported, and the total is the
\* number of entries get_predictions returns for that user and window.
C11_CountsSumToTotal ==
    (ret.op \in {"get_emotion_stats", "export_user_data"}) =>
        LET hours == IF ret.op = "get_emotion_stats" THEN ret.hours
                     ELSE ExportHours
            stats == IF ret.op = "get_emotion_stats" THEN ret.stats
                     ELSE ret.text.statistics
        IN /\ SumCounts(stats.emotion_counts) = stats.total
           /\ stats.total = Len(get_predictions(predictions_store, ret.user,
                                                StatsLimit, hours, now))

\* C12: get_emotion_stats for a user that is unknown, has an empty history or
\* has no entry inside the window asked for answers total 0, no counts, no
\* dominant label and average confidence 0, and raises nothing.
C12_ZeroStatsOutsideWindow ==
    ( /\ ret.op = "get_emotion_stats"
      /\ \/ ret.user \notin DOMAIN predictions_store
         \/ Window(predictions_store[ret.user], now - ret.hours) = <<>> ) =>
        /\ ~ret.raised
        /\ ret.stats.total = 0
        /\ ret.stats.emotion_counts = <<>>
        /\ ret.stats.dominant_emotion = None
        /\ ret.stats.average_confidence = 0

\* C12 witness: stats were asked for a user whose history holds entries, all
\* of them older than the window.
C12_Witness ==
    /\ ret.op = "get_emotion_stats"
    /\ ret.user \in DOMAIN predictions_store
    /\ predictions_store[ret.user] # <<>>
    /\ \A i \in 1..Len(predictions_store[ret.user]) :
           LET e == predictions_store[ret.user][i]
           IN /\ e.shape = "dict" /\ e.timestamp.kind = "naive"
              /\ e.timestamp.t <= now - ret.hours
    /\ ret.stats.total = 0

\* C13: the answer of GET /history/stats, from either module that serves the
\* path, for a user with or without stored history, has the fields user_id,
\* total_predictions and emotion_counts.
C13_StatsResponseFields ==
    (ret.op \in {"get_emotion_stats", "health.get_emotion_stats"}) =>
        {"user_id", "total_predictions", "emotion_counts"} \subseteq ret.stats.keys

\* C14: clear_predictions always reports success and leaves the user without
\* history, so that every query for the user is empty; for a user without
\* history it changes nothing, and a second clear changes nothing the first
\* one left.
C14_ClearIdempotent ==
    /\ [](ret.op = "clear_predictions" =>
            /\ ret.ok /\ ~ret.raised
            /\ ret.user \notin DOMAIN predictions_store
            /\ \A l \in Limits, h \in Hours :
                   get_predictions(predictions_store, ret.user, l, h, now) = <<>>)
    /\ [][(ret'.op = "clear_predictions" /\ (~ret'.arg[1] \/ ret'.arg[2])) =>
              /\ predictions_store' = predictions_store
              /\ stats_cache' = stats_cache]_vars

\* C14 witness: a user was cleared twice in a row, the second time without
\* history, and the second clear reported success.
C14_Witness ==
    /\ ret.op = "clear_predictions"
    /\ ret.arg = <<FALSE, TRUE>>
    /\ ret.ok

\* C15: get_predictions, of storage.py and of routes/health.py, returns at
\* most limit entries, for every limit >= 0, every hours and every store.
C15_LimitIsMaximum ==
    (ret.op \in {"get_predictions", "health.get_predictions"}) =>
        Len(ret.list) <= ret.limit

\* C16: a step of get_predictions, get_emotion_stats or export_user_data
\* leaves every user's stored history as it was: no entry added, removed or
\* moved, whatever its age.
C16_ReadsLeaveHistory ==
    [][(ret'.op \in {"get_predictions", "get_emotion_stats", "export_user_data"})
          => predictions_store' = predictions_store]_vars

\* C16 witness: a read has answered for a window that holds none of the user's
\* entries, and the entries older than the window are still stored.
C16_Witness ==
    /\ ret.op = "get_predictions"
    /\ ret.hours < ExportHours
    /\ ret.list = <<>>
    /\ ret.user \in DOMAIN predictions_store
    /\ \E i \in 1..Len(predictions_store[ret.user]) :
           LET e == predictions_store[ret.user][i]
           IN /\ e.shape = "dict" /\ e.timestamp.kind = "naive"
              /\ e.timestamp.t <= now - ret.hours

\* C17: the predictions of the snapshot export_user_data produces are the
\* entries stored for the user at that moment, all of them and in stored
\* order, whatever appends and imports built the history.
C17_ExportIsWholeHistory ==
    (ret.op = "export_user_data" /\ ret.user \in DOMAIN predictions_store) =>
        ret.text.predictions = predictions_store[ret.user]

\* C18: export_user_data always returns a snapshot and raises nothing; for a
\* user without history the snapshot holds zero predictions, and the call
\* creates no history and no cached stats for the user.
C18_ExportUnknownUser ==
    /\ [](ret.op = "export_user_data" =>
            /\ ~ret.raised
            /\ ret.text.parses /\ ret.text.type = "object"
            /\ ret.text.predictions_kind = "list"
            /\ ret.text.total_predictions = Len(ret.text.predictions))
    /\ [][(ret'.op = "export_user_data"
           /\ ret'.user \notin DOMAIN predictions_store) =>
              /\ ret'.text.predictions = <<>>
              /\ ret'.text.total_predictions = 0
              /\ ret'.text.statistics.total = 0
              /\ ret'.user \notin DOMAIN predictions_store'
              /\ predictions_store' = predictions_store
              /\ stats_cache' = stats_cache]_vars

\* C18 witness: an export has answered with an empty snapshot for a user that
\* has no history, other calls having been served before.
C18_Witness ==
    /\ ret.op = "export_user_data"
    /\ ret.user \notin DOMAIN predictions_store
    /\ ret.text.parses /\ ret.text.predictions = <<>>
    /\ nops > 0

\* C19: when batch_predict returns, its list has one item per frame of the
\* input, the item at each position belongs to the frame at that position, a
\* frame whose prediction fails has the item {error: text} there, and every
\* other frame has the result it has on its own.
C19_OneResultPerFrame ==
    (batch.pc = "returned") =>
        /\ Len(batch.results) = Len(batch.frames_list)
        /\ \A k \in 1..Len(batch.frames_list) :
               LET frame_data == batch.frames_list[k]
                   item == batch.results[k]
               IN IF GoodInput(frame_data)
                  THEN /\ item.error = NoKey
                       /\ item.result.shape = "dict"
                       /\ item.result.emotion = EMOTIONS[frame_data.logits.argmax]
                       /\ item.result.confidence = frame_data.logits.confidence
                       /\ item.result.timestamp =
                              (IF frame_data.timestamp = NoTs THEN UtcNowZ(now)
                               ELSE frame_data.timestamp)
                  ELSE /\ item.error \in {"Invalid base64 image format",
                                          "Image too large", "InferenceError",
                                          "postprocess"}
                       /\ item.result = NotADict

\* C19 witness: a batch has returned in which the first frame failed and a
\* frame after it has its result.
C19_Witness ==
    /\ batch.pc = "returned"
    /\ Len(batch.results) >= 2
    /\ batch.results[1].error # NoKey
    /\ batch.results[2].error = NoKey
    /\ batch.results[2].result.emotion = "Sad"

\* C20: a frame that does not decode, or whose width x height exceeds
\* MAX_FRAME_SIZE (262145 against 262144), never gets to the grayscale
\* conversion, the resize or the model: its request fails at the check, with
\* that check's error.  A frame of exactly MAX_FRAME_SIZE pixels is not turned
\* away by the size guard.
C20_GuardsShortCircuit ==
    \A r \in Requests :
        LET q == requests[r]
            decodes == q.frame.encoding = "base64" /\ q.frame.image = "raster"
            pixels == q.frame.width * q.frame.height
        IN /\ ~decodes => q.pc \in {"idle", "decode", "failed"}
           /\ (~decodes /\ q.pc = "failed") =>
                  q.error = "Invalid base64 image format"
           /\ (decodes /\ pixels > MAX_FRAME_SIZE) =>
                  q.pc \in {"decode", "validate", "failed"}
           /\ (decodes /\ pixels > MAX_FRAME_SIZE /\ q.pc = "failed") =>
                  q.error = "Image too large"
           /\ (decodes /\ pixels <= MAX_FRAME_SIZE /\ q.pc = "failed") =>
                  q.error \notin {"Image too large", "Invalid base64 image format"}

\* C20 witness: a frame of MAX_FRAME_SIZE + 1 pixels was turned away by the
\* size guard while a frame of exactly MAX_FRAME_SIZE pixels went on to the
\* conversion and the model.
C20_Witness ==
    \E r1, r2 \in Requests :
        /\ requests[r1].frame.width * requests[r1].frame.height = MAX_FRAME_SIZE + 1
        /\ requests[r1].pc = "failed"
        /\ requests[r1].error = "Image too large"
        /\ requests[r2].frame.width * requests[r2].frame.height = MAX_FRAME_SIZE
        /\ requests[r2].pc \in {"infer", "postprocess", "succeeded", "stored"}

\* C21: a request that fails because its frame is no base64 and a request
\* that fails because the decoded bytes are no image get different errors, so
\* that the caller can tell the two causes apart.
C21_DecodeErrorsDistinct ==
    \A r1, r2 \in Requests :
        ( /\ requests[r1].pc = "failed"
          /\ requests[r1].frame.encoding # "base64"
          /\ requests[r2].pc = "failed"
          /\ requests[r2].frame.encoding = "base64"
          /\ requests[r2].frame.image # "raster" ) =>
            requests[r1].error # requests[r2].error

\* C22: GET /history for a user without stored data, unknown or with an empty
\* list, answers 200 with an empty prediction list and total 0, and the store
\* is afterwards as it was, without a history for that user.
C22_HistoryOfUnknownUser ==
    [][( /\ ret'.op = "get_emotion_history"
         /\ \/ ret'.user \notin DOMAIN predictions_store
            \/ predictions_store[ret'.user] = <<>> ) =>
           /\ ret'.status = 200
           /\ ret'.list = <<>>
           /\ ret'.total = 0
           /\ predictions_store' = predictions_store]_vars

\* C22 witness: the route has answered 200 and an empty list for a user that
\* has no history, after other calls were served.
C22_Witness ==
    /\ ret.op = "get_emotion_history"
    /\ ret.user \notin DOMAIN predictions_store
    /\ ret.status = 200 /\ ret.total = 0
    /\ nops > 0

\* C23: validate_confidence passes a confidence equal to the threshold, and a
\* confidence that fails the check under one threshold fails it under every
\* threshold at least as large.
C23_ThresholdMonotonic ==
    /\ [](ret.op = "validate_confidence" =>
            (ret.arg[1] = ret.arg[2] => ret.ok))
    /\ [][( /\ ret.op = "validate_confidence"
            /\ ret'.op = "validate_confidence"
            /\ ret'.arg[1] = ret.arg[1]
            /\ ret.arg[2] <= ret'.arg[2]
            /\ ~ret.ok ) => ~ret'.ok]_vars

\* C23 witness: a confidence equal to the configured threshold has passed.
C23_Witness ==
    /\ ret.op = "validate_confidence"
    /\ ret.arg = <<CONFIDENCE_THRESHOLD, CONFIDENCE_THRESHOLD>>
    /\ ret.ok

\* C24: for logits of 7 scores postprocess_predictions returns one
\* probability for each of the 7 labels, the probabilities add up to 1 within
\* 0.01, the confidence lies in [0, 1] and is the largest of them, and the
\* emotion is a label that carries it.
C24_DistributionSumsToOne ==
    (ret.op = "postprocess_predictions") =>
        LET result == ret.arg[2]
            all_emotions == result.all_emotions
            total == SumOf([i \in 1..Len(all_emotions) |-> all_emotions[i][2]])
        IN /\ {all_emotions[i][1] : i \in 1..Len(all_emotions)}
                  = {EMOTIONS[i] : i \in 1..Len(EMOTIONS)}
           /\ Len(all_emotions) = 7
           /\ 100 * total >= 99 * Unit /\ 100 * total <= 101 * Unit
           /\ result.confidence >= 0 /\ result.confidence <= Unit
           /\ \A i \in 1..Len(all_emotions) : all_emotions[i][2] <= result.confidence
           /\ \E i \in 1..Len(all_emotions) :
                  /\ all_emotions[i][1] = result.emotion
                  /\ all_emotions[i][2] = result.confidence

\* C24 witness: logits whose largest score is the last label's alone have been
\* turned into a distribution with that label on top.
C24_Witness ==
    /\ ret.op = "postprocess_predictions"
    /\ ret.arg[1][7] = MaxScore
    /\ \A i \in 1..6 : ret.arg[1][i] < MaxScore
    /\ ret.arg[2].emotion = "Surprise"
    /\ 2 * ret.arg[2].confidence < Unit

\* C25: for a well-formed image of any size and colour mode that passes the
\* size guard, a 1x1 image included, preprocess_frame returns a tensor of
\* shape (1, 1, 48, 48) with every value between 0 and 1.
C25_TensorShapeAndRange ==
    ( /\ ret.op = "preprocess_frame"
      /\ ~decode_base64_frame(ret.arg[1].frame).raised
      /\ ret.arg[1].frame.width * ret.arg[1].frame.height <= MAX_FRAME_SIZE ) =>
        /\ ~ret.raised
        /\ ret.arg[2].shape = <<1, 1, 48, 48>>
        /\ 0 <= ret.arg[2].lo /\ ret.arg[2].lo <= ret.arg[2].hi
        /\ ret.arg[2].hi <= Unit

\* C25 witness: a 1x1 image of 32-bit samples beyond a byte's range has been
\* turned into a tensor.
C25_Witness ==
    /\ ret.op = "preprocess_frame"
    /\ ~ret.raised
    /\ ret.arg[1].frame.width = 1 /\ ret.arg[1].frame.height = 1
    /\ ret.arg[1].frame.mode = "I"
    /\ ret.arg[1].lo < 0 /\ ret.arg[1].hi > 255
    /\ ret.arg[2].shape = <<1, 1, 48, 48>>

\* an entry get_predictions cannot use: no mapping, or a mapping whose
\* timestamp is missing, is no ISO-8601 text, or carries a UTC suffix
Unusable(e) ==
    \/ e.shape # "dict"
    \/ e.timestamp.kind # "naive"

\* the entries of s that can be used, in order
RECURSIVE UsableOnly(_)
UsableOnly(s) ==
    IF s = <<>> THEN <<>>
    ELSE (IF Unusable(s[1]) THEN <<>> ELSE <<s[1]>>) \o UsableOnly(Tail(s))

\* C26: an entry the query cannot use is skipped without a mark on the others:
\* get_predictions returns what it would return on the same history with the
\* unusable entries taken out.
C26_UnusableEntriesSkipped ==
    (ret.op = "get_predictions" /\ ret.user \in DOMAIN predictions_store) =>
        ret.list = get_predictions(
                       DictSet(predictions_store, ret.user,
                               UsableOnly(predictions_store[ret.user])),
                       ret.user, ret.limit, ret.hours, now)

\* C27: an import that returns False leaves the store as it was: the same
\* users are known and each has the history it had before the call.
C27_FailedImportChangesNothing ==
    [][(ret'.op = "import_user_data" /\ ~ret'.ok) =>
           /\ DOMAIN predictions_store' = DOMAIN predictions_store
           /\ \A u \in DOMAIN predictions_store :
                  predictions_store'[u] = predictions_store[u]]_vars

\* C28: an append, an import or a clear for user u leaves every other user
\* as known or unknown as before, with the same stored history and the same
\* cached stats.
C28_PerUserIsolation ==
    [][(ret'.op \in {"store_prediction", "import_user_data", "clear_predictions"}) =>
           \A v \in Users \ {ret'.user} :
               /\ (v \in DOMAIN predictions_store') = (v \in DOMAIN predictions_store)
               /\ (v \in DOMAIN predictions_store =>
                      predictions_store'[v] = predictions_store[v])
               /\ (v \in DOMAIN stats_cache') = (v \in DOMAIN stats_cache)
               /\ (v \in DOMAIN stats_cache =>
                      stats_cache'[v] = stats_cache[v])]_vars

\* C28 witness: a prediction has been appended for one user while another has
\* a history and cached stats.
C28_Witness ==
    /\ ret.op = "store_prediction" /\ ret.user = "user_42" /\ ~ret.raised
    /\ "user_7" \in DOMAIN predictions_store
    /\ predictions_store["user_7"] # <<>>
    /\ "user_7" \in DOMAIN stats_cache

====
